---- MODULE Spec2Model ----
(***************************************************************************)
(* Model of openeo_driver/jobregistry.py: the ElasticJobRegistry client of *)
(* the Elastic Job Registry (EJR) HTTP API, its token cache and the remote *)
(* document store it talks to.                                             *)
(*                                                                         *)
(* Encoding of Python values:                                              *)
(*   None            <<>>                                                  *)
(*   a value v of a nullable field or optional argument   <<v>>            *)
(*   timestamps      whole seconds since the start of the run (rfc3339     *)
(*                   text has a resolution of one second)                  *)
(*   a JSON document a function from field names to values                 *)
(***************************************************************************)
EXTENDS Integers, Sequences, FiniteSets, TLC

VARIABLES
    store,          \* remote store: the sequence of job documents it holds
    up,             \* whether the remote service is available
    clock,          \* wall clock, in seconds
    authenticator,  \* registry -> whether self._authenticator is set
    cache,          \* registry -> self._cache entry "api_access_token" (None or an entry)
    fetches,        \* registry -> number of authenticator.get_tokens() calls so far
    fetched_at,     \* registry -> time of its last get_tokens() call (None: no call yet)
    nops,           \* number of registry calls made so far
    prev,           \* the store as it was before the last registry call
    result,         \* the last registry call: arguments, requests sent, outcome
    cached_at,      \* registry -> time its cache entry was stored (None: never)
    threads,        \* thread -> where it is inside _do_request, and the token it holds
    guard,          \* the name of the just_log_errors block the caller is in (None: in none)
    log,            \* what was logged through ElasticJobRegistry.logger.warning
    calls           \* thread -> the registry call it makes (NoCall: none yet)

vars == <<store, up, clock, authenticator, cache, fetches, fetched_at, nops, prev, result, cached_at, threads,
         guard, log, calls>>

-----------------------------------------------------------------------------
(* Bounds of the model *)

MaxDocs == 2
MaxOps == 3
MaxUpdateOps == 4
NumThreads == 2
MaxRequests == 3

(* Input domains *)
Backends == {"b1", "b2"}
Users == {"u1", "u2"}
JobIds == {"j1", "j2"}
Times == {0, 900, 691200}
Threads == 1..NumThreads

-----------------------------------------------------------------------------
(* Python values *)

None == <<>>
Some(v) == <<v>>

\* Truthiness of an optional string argument: None and "" are falsy.
Truthy(x) == x # None /\ x[1] # ""
\* dict.get(k): the field's value, None when the document has no such field.
Get(doc, k) == IF k \in DOMAIN doc THEN doc[k] ELSE None

-----------------------------------------------------------------------------
(* class JOB_STATUS *)

CREATED == "created"
QUEUED == "queued"
RUNNING == "running"
CANCELED == "canceled"
FINISHED == "finished"
ERROR == "error"
JobStatuses == {CREATED, QUEUED, RUNNING, CANCELED, FINISHED, ERROR}

(* class DEPENDENCY_STATUS *)
AWAITING == "awaiting"
AVAILABLE == "available"
AWAITING_RETRY == "awaiting_retry"
DEPENDENCY_ERROR == "error"

-----------------------------------------------------------------------------
(* decimal.Decimal: a sign (0 or 1), the coefficient's digits and an       *)
(* exponent; text is a sequence of characters.                             *)

DigitChars == <<"0", "1", "2", "3", "4", "5", "6", "7", "8", "9">>
DigitValue(c) == (CHOOSE i \in 1..10 : DigitChars[i] = c) - 1

Decimal(sign, int, exp) == [sign |-> sign, int |-> int, exp |-> exp]

Zeros(n) == [i \in 1..n |-> "0"]

\* str(n) of an integer n >= 0
RECURSIVE NatStr(_)
NatStr(n) == IF n < 10 THEN <<DigitChars[n + 1]>> ELSE NatStr(n \div 10) \o <<DigitChars[(n % 10) + 1]>>

\* "%+d" % n
SignedStr(n) == IF n < 0 THEN <<"-">> \o NatStr(-n) ELSE <<"+">> \o NatStr(n)

\* int(text) of a text of digits
RECURSIVE NatFromString(_)
NatFromString(t) ==
    IF t = <<>> THEN 0
    ELSE 10 * NatFromString(SubSeq(t, 1, Len(t) - 1)) + DigitValue(t[Len(t)])

\* int(text) of a text of digits with an optional sign
IntFromString(t) ==
    IF t # <<>> /\ t[1] = "-" THEN -NatFromString(Tail(t))
    ELSE IF t # <<>> /\ t[1] = "+" THEN NatFromString(Tail(t))
    ELSE NatFromString(t)

\* Decimal.__str__: scientific notation when the exponent is positive or more
\* than six zeros would follow the point.
DecimalStr(d) ==
    LET leftdigits == d.exp + Len(d.int)
        dotplace == IF d.exp <= 0 /\ leftdigits > -6 THEN leftdigits ELSE 1
        intpart == IF dotplace <= 0 THEN <<"0">>
                   ELSE IF dotplace >= Len(d.int) THEN d.int \o Zeros(dotplace - Len(d.int))
                   ELSE SubSeq(d.int, 1, dotplace)
        fracpart == IF dotplace <= 0 THEN <<".">> \o Zeros(-dotplace) \o d.int
                    ELSE IF dotplace >= Len(d.int) THEN <<>>
                    ELSE <<".">> \o SubSeq(d.int, dotplace + 1, Len(d.int))
        exp == IF leftdigits = dotplace THEN <<>>
               ELSE <<"E">> \o SignedStr(leftdigits - dotplace)
    IN (IF d.sign = 1 THEN <<"-">> ELSE <<>>) \o intpart \o fracpart \o exp

\* The position of character c in text t, 0 when it is not there.
Find(t, c) ==
    IF \E i \in 1..Len(t) : t[i] = c
    THEN CHOOSE i \in 1..Len(t) : t[i] = c /\ \A j \in 1..(i - 1) : t[j] # c
    ELSE 0

\* str(int(digits)): the digits without leading zeros
RECURSIVE StripZeros(_)
StripZeros(t) == IF Len(t) > 1 /\ t[1] = "0" THEN StripZeros(Tail(t)) ELSE t

\* Decimal(text): sign, digits before and after the point, exponent.
DecimalFromString(t) ==
    LET sign == IF t # <<>> /\ t[1] = "-" THEN 1 ELSE 0
        unsigned == IF t # <<>> /\ t[1] \in {"-", "+"} THEN Tail(t) ELSE t
        e == Find(unsigned, "E")
        mantissa == IF e = 0 THEN unsigned ELSE SubSeq(unsigned, 1, e - 1)
        exp == IF e = 0 THEN 0 ELSE IntFromString(SubSeq(unsigned, e + 1, Len(unsigned)))
        dot == Find(mantissa, ".")
        intpart == IF dot = 0 THEN mantissa ELSE SubSeq(mantissa, 1, dot - 1)
        fracpart == IF dot = 0 THEN <<>> ELSE SubSeq(mantissa, dot + 1, Len(mantissa))
    IN Decimal(sign, StripZeros(intpart \o fracpart), exp - Len(fracpart))

-----------------------------------------------------------------------------
(* rfc3339 *)

\* rfc3339.utcnow(): the current time as text with a resolution of one second.
UtcNow == clock

\* rfc3339.datetime(x): the given instant as RFC-3339 UTC text.  Instants are
\* given in whole seconds, so the text denotes the same second.
Rfc3339Datetime(x) == x

-----------------------------------------------------------------------------
(* The remote store behind the EJR HTTP API (an external service):         *)
(* POST /jobs, PATCH /jobs/{job_id}, POST /jobs/search, GET /health.       *)

SecondsPerDay == 86400

\* One clause of the filter DSL against one document ("now-<N>d" is
\* evaluated by the store against its own clock).
Matches(doc, c, now) ==
    /\ c.field \in DOMAIN doc
    /\ CASE c.type = "term" -> doc[c.field] = c.value
         [] c.type = "terms" -> doc[c.field] \in c.values
         [] c.type = "range" -> doc[c.field] >= now - c.gte_now_minus_days * SecondsPerDay

\* {"bool": {"filter": [...]}}: every clause must match.
MatchesAll(doc, query, now) == \A i \in 1..Len(query) : Matches(doc, query[i], now)

\* "_source": the fields of a hit that are returned ("*" is every field).
Project(doc, source) ==
    IF "*" \in source THEN doc
    ELSE [k \in DOMAIN doc \cap source |-> doc[k]]

RECURSIVE Hits(_, _, _, _)
Hits(docs, query, source, now) ==
    IF docs = <<>> THEN <<>>
    ELSE (IF MatchesAll(Head(docs), query, now)
          THEN <<Project(Head(docs), source)>> ELSE <<>>)
         \o Hits(Tail(docs), query, source, now)

\* Partial update of a document: the given fields are merged into it.
Merge(doc, data) ==
    [k \in DOMAIN doc \cup DOMAIN data |-> IF k \in DOMAIN data THEN data[k] ELSE doc[k]]

\* The documents PATCH /jobs/{job_id} can address: the request names a job id
\* and nothing else.
PatchTargets(docs, job_id) == {i \in 1..Len(docs) : docs[i].job_id = job_id}

Response(status, body, docs, hit) ==
    [status |-> status, body |-> body, docs |-> docs, hit |-> hit]

\* What the store does with a request when it serves it.
Served(docs, now, req) ==
    CASE req.method = "POST" /\ req.path = "/jobs" ->
           {Response(201, <<req.json>>, Append(docs, req.json), Len(docs) + 1)}
      [] req.method = "PATCH" /\ req.path = "/jobs/{job_id}" ->
           IF PatchTargets(docs, req.job_id) = {}
           THEN {Response(404, <<>>, docs, 0)}
           ELSE {Response(200, <<Merge(docs[i], req.json)>>,
                          [docs EXCEPT ![i] = Merge(docs[i], req.json)], i)
                   : i \in PatchTargets(docs, req.job_id)}
      [] req.method = "POST" /\ req.path = "/jobs/search" ->
           {Response(200, Hits(docs, req.json.query, req.json.source, now), docs, 0)}
      [] req.method = "GET" /\ req.path = "/health" ->
           {Response(200, <<>>, docs, 0)}

\* No response at all: the connection fails or times out.
NoResponse == 0

\* The status codes that come back while the service itself is down: from a
\* gateway in front of it, or from something else answering at its address.
GatewayStatuses == {200, 502, 503}

\* The responses a request can get: it is served, or the service is down and
\* the documents stay as they are (an answer from elsewhere, or none).
StoreResponses(docs, available, now, req) ==
    IF available THEN Served(docs, now, req)
    ELSE {Response(s, <<>>, docs, 0) : s \in GatewayStatuses \cup {NoResponse}}

-----------------------------------------------------------------------------
(* TtlCache (openeo_driver.util.caching), as used for "api_access_token" *)

\* An entry is a value with its expiry time.
CacheEntry(value, expiry) == [value |-> value, expiry |-> expiry]

\* Whether the cache holds an entry that is younger than its ttl.
CacheContains(entry, now) == entry # None /\ now < entry[1].expiry

\* set(key, value, ttl): store the value with a fresh expiry.
CacheSet(value, ttl, now) == Some(CacheEntry(value, now + ttl))

-----------------------------------------------------------------------------
(* ElasticJobRegistryCredentials.  A mapping is a function from its keys. *)

\* from_mapping, line 173: args
CredentialArgs == {"oidc_issuer", "client_id", "client_secret"}

\* from_env, lines 187-191: env_var_mapping
EnvVarMapping ==
    [oidc_issuer |-> "OPENEO_EJR_OIDC_ISSUER",
     client_id |-> "OPENEO_EJR_OIDC_CLIENT_ID",
     client_secret |-> "OPENEO_EJR_OIDC_CLIENT_SECRET"]

\* What a builder gives: the credentials, None, or an EjrError naming keys.
Built(outcome, value, missing) == [outcome |-> outcome, value |-> value, missing |-> missing]

\* from_mapping, lines 171-180
FromMapping(data, strict) ==
    IF CredentialArgs \subseteq DOMAIN data
    THEN Built("ok", Some([a \in CredentialArgs |-> data[a]]), {})
    ELSE IF strict
    THEN Built("EjrError", None, CredentialArgs \ DOMAIN data)
    ELSE Built("ok", None, {})

\* from_env, line 186: env or os.environ (an empty mapping is falsy)
EnvOrEnviron(env, environ) == IF env # None /\ DOMAIN env[1] # {} THEN env[1] ELSE environ

\* Mutant of FromEnv: the error names the credential fields, not the variables.
FromEnvNamesFields(env, environ, strict) ==
    LET e == EnvOrEnviron(env, environ) IN
    IF \A a \in CredentialArgs : EnvVarMapping[a] \in DOMAIN e
    THEN Built("ok", Some([a \in CredentialArgs |-> e[EnvVarMapping[a]]]), {})
    ELSE IF strict
    THEN Built("EjrError", None, {a \in CredentialArgs : EnvVarMapping[a] \notin DOMAIN e})
    ELSE Built("ok", None, {})

\* from_env, lines 182-197
FromEnv(env, environ, strict) ==
    LET e == EnvOrEnviron(env, environ) IN
    IF \A a \in CredentialArgs : EnvVarMapping[a] \in DOMAIN e
    THEN Built("ok", Some([a \in CredentialArgs |-> e[EnvVarMapping[a]]]), {})
    ELSE IF strict
    THEN Built("EjrError", None,
               {EnvVarMapping[a] : a \in CredentialArgs} \ DOMAIN e)
    ELSE Built("ok", None, {})

-----------------------------------------------------------------------------
(* ElasticJobRegistry *)

\* __init__: self._cache = TtlCache(default_ttl=60 * 60)
CacheDefaultTtl == 3600

\* Mutant of AccessTokenTtl: the token is cached for the cache's default TTL.
AccessTokenTtlDefault == CacheDefaultTtl

\* _do_request: ttl=30 * 60 of the cached access token
AccessTokenTtl == 1800

\* _get_access_token: the authenticator issues a new token on every call;
\* tokens of one authenticator are numbered in the order they are issued.
GetAccessToken(b) == fetches[b] + 1

\* Mutant of AccessToken: the cache is not consulted, every request fetches.
AccessTokenAlwaysFetch(b, use_auth) ==
    IF ~use_auth
    THEN [ok |-> TRUE, token |-> None, cache |-> cache[b], fetched |-> 0]
    ELSE IF ~authenticator[b]
    THEN [ok |-> FALSE, token |-> None, cache |-> cache[b], fetched |-> 0]
    ELSE [ok |-> TRUE, token |-> Some(GetAccessToken(b)),
          cache |-> CacheSet(GetAccessToken(b), AccessTokenTtl, clock), fetched |-> 1]

\* Mutant of AccessToken: without an authenticator the request goes out
\* without a token.
AccessTokenAnonymous(b, use_auth) ==
    IF ~use_auth
    THEN [ok |-> TRUE, token |-> None, cache |-> cache[b], fetched |-> 0]
    ELSE IF CacheContains(cache[b], clock)
    THEN [ok |-> TRUE, token |-> Some(cache[b][1].value), cache |-> cache[b], fetched |-> 0]
    ELSE IF ~authenticator[b]
    THEN [ok |-> TRUE, token |-> None, cache |-> cache[b], fetched |-> 0]
    ELSE [ok |-> TRUE, token |-> Some(GetAccessToken(b)),
          cache |-> CacheSet(GetAccessToken(b), AccessTokenTtl, clock), fetched |-> 1]

\* Mutant of AccessToken: the token is looked up whatever use_auth says.
AccessTokenIgnoresUseAuth(b, use_auth) ==
    IF CacheContains(cache[b], clock)
    THEN [ok |-> TRUE, token |-> Some(cache[b][1].value), cache |-> cache[b], fetched |-> 0]
    ELSE IF ~authenticator[b]
    THEN [ok |-> FALSE, token |-> None, cache |-> cache[b], fetched |-> 0]
    ELSE [ok |-> TRUE, token |-> Some(GetAccessToken(b)),
          cache |-> CacheSet(GetAccessToken(b), AccessTokenTtl, clock), fetched |-> 1]

\* _do_request, lines 279-287: the bearer token of a request.
\*   ok: FALSE when _get_access_token raises EjrError("No authentication set up")
AccessToken(b, use_auth) ==
    IF ~use_auth
    THEN [ok |-> TRUE, token |-> None, cache |-> cache[b], fetched |-> 0]
    ELSE IF CacheContains(cache[b], clock)
    THEN [ok |-> TRUE, token |-> Some(cache[b][1].value), cache |-> cache[b], fetched |-> 0]
    ELSE IF ~authenticator[b]
    THEN [ok |-> FALSE, token |-> None, cache |-> cache[b], fetched |-> 0]
    ELSE [ok |-> TRUE, token |-> Some(GetAccessToken(b)),
          cache |-> CacheSet(GetAccessToken(b), AccessTokenTtl, clock), fetched |-> 1]

\* Mutant of Classify: every status below 400 is taken for a success.
ClassifySuccessCodes(expected_status, status) ==
    IF status >= 400 THEN "EjrHttpError" ELSE "ok"

\* _do_request, lines 309-313: the response's status against expected_status.
Classify(expected_status, status) ==
    IF expected_status # 0 /\ status # expected_status THEN "EjrHttpError"
    ELSE IF status >= 400 THEN "HTTPError"
    ELSE "ok"

\* EjrHttpError.from_response, lines 154-160: the error carries the status code
\* of the response.
EjrHttpErrorFromResponse(status) == [status_code |-> status]

\* How a request ended: what the caller gets (outcome, detail, body), what was
\* sent (request, token, number of HTTP requests) and what it left behind.
Outcome(outcome, detail, status_code, body, docs, hit, a, sent, request) ==
    [outcome |-> outcome, detail |-> detail, status_code |-> status_code, body |-> body,
     docs |-> docs, hit |-> hit, token |-> a.token, cache |-> a.cache,
     fetched |-> a.fetched, sent |-> sent, request |-> request]

\* Mutant of Answer: a request that failed is sent a second time.
AnswerWithRetry(req, expected_status, r, a) ==
    IF r.status = NoResponse
    THEN Outcome("ConnectionError", None, r.status, <<>>, r.docs, r.hit, a, 2, Some(req))
    ELSE IF Classify(expected_status, r.status) = "EjrHttpError"
    THEN Outcome("EjrHttpError", Some(EjrHttpErrorFromResponse(r.status).status_code),
                 r.status, <<>>, r.docs, r.hit, a, 2, Some(req))
    ELSE IF Classify(expected_status, r.status) = "HTTPError"
    THEN Outcome("HTTPError", None, r.status, <<>>, r.docs, r.hit, a, 2, Some(req))
    ELSE Outcome("ok", None, r.status, r.body, r.docs, r.hit, a, 1, Some(req))

\* _do_request, lines 297-313: the response, or the lack of one, becomes the
\* result of the call.
Answer(req, expected_status, r, a) ==
    IF r.status = NoResponse
    THEN Outcome("ConnectionError", None, r.status, <<>>, r.docs, r.hit, a, 1, Some(req))
    ELSE IF Classify(expected_status, r.status) = "EjrHttpError"
    THEN Outcome("EjrHttpError", Some(EjrHttpErrorFromResponse(r.status).status_code),
                 r.status, <<>>, r.docs, r.hit, a, 1, Some(req))
    ELSE IF Classify(expected_status, r.status) = "HTTPError"
    THEN Outcome("HTTPError", None, r.status, <<>>, r.docs, r.hit, a, 1, Some(req))
    ELSE Outcome("ok", None, r.status, r.body, r.docs, r.hit, a, 1, Some(req))

\* _do_request: every way the request can end.
DoRequest(b, req, use_auth, expected_status) ==
    LET a == AccessToken(b, use_auth) IN
    IF ~a.ok
    THEN {Outcome("EjrError", None, 0, <<>>, store, 0, a, 0, None)}
    ELSE {Answer(req, expected_status, r, a) : r \in StoreResponses(store, up, clock, req)}

\* generate_job_id: an id no job has yet.
GenerateJobId(docs) == {j \in JobIds : \A i \in 1..Len(docs) : docs[i].job_id # j}

\* create_job, lines 347-369: the initial document of a job.
JobData(b, process, user_id, job_id, title, description, parent_id, api_version, job_options, created) ==
    [backend_id |-> b, user_id |-> user_id, job_id |-> job_id,
     process |-> process, title |-> title, description |-> description,
     status |-> CREATED, created |-> created, updated |-> created,
     job_options |-> job_options, parent_id |-> parent_id,
     application_id |-> None, api_version |-> api_version]

\* Mutant of SearchBody: the basic fields are added only when no field is asked.
SearchBodyFieldsAsGiven(query, fields) ==
    [query |-> query,
     source |-> IF fields # None /\ fields[1] # {} THEN fields[1]
                ELSE {"job_id", "user_id", "created", "status", "updated"}]

\* _search, lines 460-466: the body of a search request.
SearchBody(query, fields) ==
    [query |-> query,
     source |-> (IF fields # None /\ fields[1] # {} THEN fields[1] ELSE {})
                  \cup {"job_id", "user_id", "created", "status", "updated"}]

SearchRequest(query, fields) ==
    [method |-> "POST", path |-> "/jobs/search", json |-> SearchBody(query, fields)]

Term(field, value) == [type |-> "term", field |-> field, value |-> value]
Terms(field, values) == [type |-> "terms", field |-> field, values |-> values]
RangeGteNowMinusDays(field, days) ==
    [type |-> "range", field |-> field, gte_now_minus_days |-> days]

\* get_job, lines 381-388
GetJobQuery(b, job_id) == <<Term("backend_id", b), Term("job_id", job_id)>>

\* get_job, line 391: the full document by default
GetJobFields(fields) == IF fields # None /\ fields[1] # {} THEN fields ELSE Some({"*"})

\* Mutant of GetJobOutcome: any match is good enough (len(jobs) >= 1).
GetJobOutcomeFirstMatch(jobs) ==
    IF Len(jobs) >= 1 THEN "ok" ELSE "JobNotFoundException"

\* get_job, lines 392-403: what the search result becomes.
GetJobOutcome(jobs) ==
    IF Len(jobs) = 1 THEN "ok"
    ELSE IF Len(jobs) = 0 THEN "JobNotFoundException"
    ELSE "InternalException"

\* Mutant of GetJobReturn: a search that failed counts as a search without hits.
GetJobReturnNotFoundOnFailure(r, job_id) ==
    IF r.outcome # "ok"
    THEN [r EXCEPT !.outcome = "JobNotFoundException", !.detail = Some(job_id)]
    ELSE [r EXCEPT !.outcome = GetJobOutcome(r.body),
                   !.body = IF GetJobOutcome(r.body) = "ok" THEN <<r.body[1]>> ELSE <<>>,
                   !.detail = IF GetJobOutcome(r.body) = "JobNotFoundException"
                              THEN Some(job_id) ELSE None]

\* get_job, lines 392-403: the record returned, or the exception raised
\* (JobNotFoundException(job_id=job_id); InternalException("Found <n> jobs ...")).
GetJobReturn(r, job_id) ==
    IF r.outcome # "ok" THEN r
    ELSE [r EXCEPT !.outcome = GetJobOutcome(r.body),
                   !.body = IF GetJobOutcome(r.body) = "ok" THEN <<r.body[1]>> ELSE <<>>,
                   !.detail = IF GetJobOutcome(r.body) = "JobNotFoundException"
                              THEN Some(job_id) ELSE None]

\* list_user_jobs, lines 473-480
ListUserJobsQuery(b, user_id) == <<Term("backend_id", b), Term("user_id", user_id)>>

\* list_active_jobs, line 492: max_age or 7
MaxAgeDays(max_age) == IF max_age # None /\ max_age[1] # 0 THEN max_age[1] ELSE 7

\* list_active_jobs, lines 486-495
ListActiveJobsQuery(b, max_age) ==
    <<Term("backend_id", b),
      Terms("status", {CREATED, QUEUED, RUNNING}),
      RangeGteNowMinusDays("created", MaxAgeDays(max_age))>>

\* Mutant of SetStatusData: started and finished are written on every call,
\* as null when the caller leaves them out.
SetStatusDataClearsOmitted(status, updated, started, finished) ==
    [status |-> status,
     updated |-> IF updated # None THEN Rfc3339Datetime(updated[1]) ELSE UtcNow,
     started |-> IF started # None THEN Some(Rfc3339Datetime(started[1])) ELSE None,
     finished |-> IF finished # None THEN Some(Rfc3339Datetime(finished[1])) ELSE None]

\* Mutant of SetStatusData: updated is written only when the caller gives it.
SetStatusDataKeepsUpdated(status, updated, started, finished) ==
    Merge(Merge(Merge([status |-> status],
                      IF updated # None THEN [updated |-> Rfc3339Datetime(updated[1])] ELSE <<>>),
                IF started # None THEN [started |-> Some(Rfc3339Datetime(started[1]))] ELSE <<>>),
          IF finished # None THEN [finished |-> Some(Rfc3339Datetime(finished[1]))] ELSE <<>>)

\* Mutant of SetStatusData: the status goes out alone, the timestamps are left
\* to a later request.
SetStatusDataStatusOnly(status, updated, started, finished) ==
    [status |-> status]

\* Mutant of SetStatusData: one status constant is misspelt.
SetStatusDataMisspelt(status, updated, started, finished) ==
    Merge(Merge([status |-> IF status = CANCELED THEN "cancelled" ELSE status,
                 updated |-> IF updated # None THEN Rfc3339Datetime(updated[1]) ELSE UtcNow],
                IF started # None THEN [started |-> Some(Rfc3339Datetime(started[1]))] ELSE <<>>),
          IF finished # None THEN [finished |-> Some(Rfc3339Datetime(finished[1]))] ELSE <<>>)

\* set_status, lines 414-421: the fields a status update writes.
SetStatusData(status, updated, started, finished) ==
    Merge(Merge([status |-> status,
                 updated |-> IF updated # None THEN Rfc3339Datetime(updated[1]) ELSE UtcNow],
                IF started # None THEN [started |-> Some(Rfc3339Datetime(started[1]))] ELSE <<>>),
          IF finished # None THEN [finished |-> Some(Rfc3339Datetime(finished[1]))] ELSE <<>>)

\* set_dependencies, line 435
SetDependenciesData(dependencies) == [dependencies |-> Some(dependencies)]

\* Mutant of RemoveDependenciesData: only the dependencies are cleared.
RemoveDependenciesDataOnlyDependencies == [dependencies |-> None]

\* remove_dependencies, line 439
RemoveDependenciesData == [dependencies |-> None, dependency_status |-> None]

\* set_dependency_status, line 444
SetDependencyStatusData(dependency_status) == [dependency_status |-> Some(dependency_status)]

\* Mutant of SetDependencyUsageData: the value goes through a float, which
\* keeps its leading digits only.
SetDependencyUsageDataFloat(dependency_usage) ==
    LET d == dependency_usage
        kept == IF Len(d.int) > 12 THEN 12 ELSE Len(d.int)
    IN [dependency_usage |->
          Some(DecimalStr(Decimal(d.sign, SubSeq(d.int, 1, kept), d.exp + Len(d.int) - kept)))]

\* set_dependency_usage, line 449: str(dependency_usage)
SetDependencyUsageData(dependency_usage) ==
    [dependency_usage |-> Some(DecimalStr(dependency_usage))]

\* Mutant of SetProxyUserData: the proxy user takes the place of the owner.
SetProxyUserDataAsOwner(proxy_user) == [user_id |-> proxy_user]

\* set_proxy_user, line 453
SetProxyUserData(proxy_user) == [proxy_user |-> Some(proxy_user)]

\* Mutant of SetApplicationIdData: the whole application block is sent, the
\* proxy user as the caller knows it (none).
SetApplicationIdDataClearsProxy(application_id) ==
    [application_id |-> Some(application_id), proxy_user |-> None]

\* Mutant of SetApplicationIdData: the job is also marked as running.
SetApplicationIdDataAndStatus(application_id) ==
    [application_id |-> Some(application_id), status |-> RUNNING]

\* set_application_id, line 456
SetApplicationIdData(application_id) == [application_id |-> Some(application_id)]

\* _update, lines 428-430: the PATCH request of a partial update.
UpdateRequest(job_id, data) ==
    [method |-> "PATCH", path |-> "/jobs/{job_id}", job_id |-> job_id, json |-> data]

-----------------------------------------------------------------------------
(* Inputs *)

Process == "process_graph"
Title == Some("title")
Description == None
ParentId == None
ApiVersion == Some("1.1.0")
JobOptions == None

JobIdArgs == {None, Some("j1")}
TimeArgs == {None, Some(900)}
\* the keyword arguments of set_status: none, or one of them
StatusTimeArgs ==
    {[updated |-> None, started |-> None, finished |-> None],
     [updated |-> Some(900), started |-> None, finished |-> None],
     [updated |-> None, started |-> Some(900), finished |-> None],
     [updated |-> None, started |-> None, finished |-> Some(900)]}
FieldsArgs == {None, Some({}), Some({"title"}), Some({"job_id", "process", "dependencies"})}
MaxAgeArgs == {None, Some(0), Some(1), Some(9)}
Dependencies == <<[batch_request_id |-> "r1"]>>

\* The text of a sequence of digits.
Text(digits) == [i \in 1..Len(digits) |-> DigitChars[digits[i] + 1]]

\* 12.3456789012345
Usage == Decimal(0, Text(<<1, 2, 3, 4, 5, 6, 7, 8, 9, 0, 1, 2, 3, 4, 5>>), -13)

\* 12.3456789012345, 0.1, 1.10, 100, 1E+3, 1.5E+10, 1E-7, 0.000001, -0.5, 0,
\* 0.00, -12.00
Usages ==
    {Usage,
     Decimal(0, Text(<<1>>), -1), Decimal(0, Text(<<1, 1, 0>>), -2),
     Decimal(0, Text(<<1, 0, 0>>), 0), Decimal(0, Text(<<1>>), 3),
     Decimal(0, Text(<<1, 5>>), 9), Decimal(0, Text(<<1>>), -7),
     Decimal(0, Text(<<1>>), -6), Decimal(1, Text(<<5>>), -1),
     Decimal(0, Text(<<0>>), 0), Decimal(0, Text(<<0>>), -2),
     Decimal(1, Text(<<1, 2, 0, 0>>), -2)}

-----------------------------------------------------------------------------
(* Operations *)

\* A thread that is not inside _do_request.
Idle == [pc |-> "idle", token |-> None, from_cache |-> FALSE, read_at |-> 0, stored_at |-> 0]

\* A thread that has not called the registry: the call's name, arguments and
\* PATCH data, when it was made, whether its request was sent and answered
\* well, its place among the requests sent, and the record it returned.
NoCall ==
    [op |-> "none", args |-> <<>>, data |-> <<>>, at |-> 0, done |-> FALSE, ok |-> FALSE,
     seq |-> 0, observed |-> <<>>]

\* No registry call was made yet.
NoResult ==
    [op |-> "none", reg |-> "", args |-> <<>>, at |-> 0,
     outcome |-> "", detail |-> None, status_code |-> 0, body |-> <<>>,
     hit |-> 0, token |-> None, fetched |-> 0, last_fetch |-> None, sent |-> 0,
     request |-> None, guard |-> None, raised |-> FALSE]

Init ==
    /\ store = <<>>
    /\ up = TRUE
    /\ clock = 0
    /\ authenticator = [b \in Backends |-> FALSE]
    /\ cache = [b \in Backends |-> None]
    /\ fetches = [b \in Backends |-> 0]
    /\ fetched_at = [b \in Backends |-> None]
    /\ nops = 0
    /\ prev = <<>>
    /\ result = NoResult
    /\ cached_at = [b \in Backends |-> None]
    /\ threads = [t \in Threads |-> Idle]
    /\ guard = None
    /\ log = <<>>
    /\ calls = [t \in Threads |-> NoCall]

\* Time passes: the clock moves on to a later instant of T.
Tick(T) ==
    /\ \E t \in T : t > clock /\ clock' = t
    /\ UNCHANGED <<store, up, authenticator, cache, fetches, fetched_at, nops, prev, result, cached_at, threads,
                   guard, log, calls>>

\* The remote service goes down, or comes back.
Outage ==
    /\ up' = ~up
    /\ UNCHANGED <<store, clock, authenticator, cache, fetches, fetched_at, nops, prev, result, cached_at, threads,
                   guard, log, calls>>

SetupAuthOidcClientCredentials(b) ==
    /\ authenticator' = [authenticator EXCEPT ![b] = TRUE]
    /\ UNCHANGED <<store, up, clock, cache, fetches, fetched_at, nops, prev, result, cached_at, threads,
                   guard, log, calls>>

\* just_log_exceptions(log=ElasticJobRegistry.logger.warning, name=name)
\* (openeo_driver.util.logging): an exception raised inside the block is logged
\* with the name and goes no further; without a block it reaches the caller.
JustLogExceptions(block, outcome) ==
    IF outcome = "ok" THEN [logged |-> <<>>, raised |-> FALSE]
    ELSE IF block = None THEN [logged |-> <<>>, raised |-> TRUE]
    ELSE [logged |-> <<[name |-> block[1].name, error |-> outcome]>>, raised |-> FALSE]

\* Mutant of JustLogErrorsContext: the default name is passed on, not the given one.
JustLogErrorsContextDefaultName(name) == [given |-> name, name |-> "EJR"]

\* just_log_errors, line 505: the context is made with the name the caller
\* gave (given), passed on as name=name.
JustLogErrorsContext(name) == [given |-> name, name |-> name]

\* with ElasticJobRegistry.just_log_errors(name): the caller enters the block.
JustLogErrors(name) ==
    /\ guard = None
    /\ guard' = Some(JustLogErrorsContext(name))
    /\ UNCHANGED <<store, up, clock, authenticator, cache, fetches, fetched_at, nops, prev,
                   result, cached_at, threads, log, calls>>

\* The block ends without an exception.
EndOfBlock ==
    /\ guard # None
    /\ guard' = None
    /\ UNCHANGED <<store, up, clock, authenticator, cache, fetches, fetched_at, nops, prev,
                   result, cached_at, threads, log, calls>>

\* The registry call returns (or raises): the new state.
Return(b, op, args, r) ==
    /\ store' = r.docs
    /\ prev' = store
    /\ cache' = [cache EXCEPT ![b] = r.cache]
    /\ fetches' = [fetches EXCEPT ![b] = @ + r.fetched]
    /\ fetched_at' = [fetched_at EXCEPT ![b] = IF r.fetched = 1 THEN Some(clock) ELSE @]
    /\ cached_at' = [cached_at EXCEPT ![b] = IF r.fetched = 1 THEN Some(clock) ELSE @]
    /\ nops' = nops + 1
    /\ result' = [op |-> op, reg |-> b, args |-> args, at |-> clock,
                  outcome |-> r.outcome, detail |-> r.detail,
                  status_code |-> r.status_code, body |-> r.body, hit |-> r.hit,
                  token |-> r.token, fetched |-> r.fetched,
                  last_fetch |-> fetched_at[b], sent |-> r.sent, request |-> r.request,
                  guard |-> guard, raised |-> JustLogExceptions(guard, r.outcome).raised]
    /\ guard' = IF JustLogExceptions(guard, r.outcome).logged # None THEN None ELSE guard
    /\ log' = log \o JustLogExceptions(guard, r.outcome).logged
    /\ UNCHANGED <<up, clock, authenticator, threads, calls>>

CreateJob(b, user_id, job_id) ==
    /\ Len(store) < MaxDocs
    /\ \E generated \in GenerateJobId(store) :
         LET id == IF Truthy(job_id) THEN job_id[1] ELSE generated
             data == JobData(b, Process, user_id, id, Title, Description, ParentId,
                             ApiVersion, JobOptions, UtcNow)
         IN \E r \in DoRequest(b, [method |-> "POST", path |-> "/jobs", json |-> data],
                               TRUE, 201) :
              Return(b, "create_job", [job_id |-> id, user_id |-> user_id], r)

GetJob(b, job_id, fields) ==
    \E r \in DoRequest(b, SearchRequest(GetJobQuery(b, job_id), GetJobFields(fields)),
                       TRUE, 200) :
        Return(b, "get_job", [job_id |-> job_id, fields |-> fields],
               GetJobReturn(r, job_id))

\* health_check, lines 324-328
HealthCheck(b, use_auth) ==
    \E r \in DoRequest(b, [method |-> "GET", path |-> "/health"], use_auth, 200) :
        Return(b, "health_check", [use_auth |-> use_auth], r)

\* _update
Update(b, op, args, job_id, data) ==
    \E r \in DoRequest(b, UpdateRequest(job_id, data), TRUE, 200) :
        Return(b, op, args, r)

SetStatus(b, job_id, status, updated, started, finished) ==
    Update(b, "set_status",
           [job_id |-> job_id, status |-> status, updated |-> updated,
            started |-> started, finished |-> finished],
           job_id, SetStatusData(status, updated, started, finished))

SetDependencies(b, job_id, dependencies) ==
    Update(b, "set_dependencies", [job_id |-> job_id, dependencies |-> dependencies],
           job_id, SetDependenciesData(dependencies))

RemoveDependencies(b, job_id) ==
    Update(b, "remove_dependencies", [job_id |-> job_id], job_id, RemoveDependenciesData)

SetDependencyStatus(b, job_id, dependency_status) ==
    Update(b, "set_dependency_status",
           [job_id |-> job_id, dependency_status |-> dependency_status],
           job_id, SetDependencyStatusData(dependency_status))

SetDependencyUsage(b, job_id, dependency_usage) ==
    Update(b, "set_dependency_usage",
           [job_id |-> job_id, dependency_usage |-> dependency_usage],
           job_id, SetDependencyUsageData(dependency_usage))

SetProxyUser(b, job_id, proxy_user) ==
    Update(b, "set_proxy_user", [job_id |-> job_id, proxy_user |-> proxy_user],
           job_id, SetProxyUserData(proxy_user))

SetApplicationId(b, job_id, application_id) ==
    Update(b, "set_application_id", [job_id |-> job_id, application_id |-> application_id],
           job_id, SetApplicationIdData(application_id))

\* _search
Search(b, op, args, query, fields) ==
    \E r \in DoRequest(b, SearchRequest(query, fields), TRUE, 200) :
        Return(b, op, args, r)

ListUserJobs(b, user_id, fields) ==
    Search(b, "list_user_jobs", [user_id |-> user_id, fields |-> fields],
           ListUserJobsQuery(b, user_id), fields)

ListActiveJobs(b, max_age, fields) ==
    Search(b, "list_active_jobs", [max_age |-> max_age, fields |-> fields],
           ListActiveJobsQuery(b, max_age), fields)

-----------------------------------------------------------------------------
(* Job lifecycle on one backend: creation, lookup, status updates, listings *)

Next ==
    \/ nops < MaxOps /\ Tick(Times)
    \/ nops < MaxOps /\ SetupAuthOidcClientCredentials("b1")
    \/ \E j \in JobIdArgs : nops < MaxOps /\ CreateJob("b1", "u1", j)
    \/ \E j \in JobIds : nops < MaxOps /\ GetJob("b1", j, None)
    \/ \E j \in JobIds, s \in JobStatuses, k \in StatusTimeArgs :
         nops < MaxOps /\ SetStatus("b1", j, s, k.updated, k.started, k.finished)
    \/ \E u \in Users : nops < MaxOps /\ ListUserJobs("b1", u, None)
    \/ \E m \in MaxAgeArgs : nops < MaxOps /\ ListActiveJobs("b1", m, None)

Spec == Init /\ [][Next]_vars

-----------------------------------------------------------------------------
(* Partial updates of the jobs of one backend, on a registry that was set  *)
(* up with credentials (CliApp._get_job_registry).                         *)

InitUpdates ==
    /\ store = <<>>
    /\ up = TRUE
    /\ clock = 0
    /\ authenticator = [b \in Backends |-> TRUE]
    /\ cache = [b \in Backends |-> None]
    /\ fetches = [b \in Backends |-> 0]
    /\ fetched_at = [b \in Backends |-> None]
    /\ nops = 0
    /\ prev = <<>>
    /\ result = NoResult
    /\ cached_at = [b \in Backends |-> None]
    /\ threads = [t \in Threads |-> Idle]
    /\ guard = None
    /\ log = <<>>
    /\ calls = [t \in Threads |-> NoCall]

UpdateTimes == {0, 900}
UpdateStatusArgs ==
    {[status |-> RUNNING, updated |-> None, started |-> Some(900), finished |-> None],
     [status |-> FINISHED, updated |-> None, started |-> None, finished |-> Some(900)],
     [status |-> QUEUED, updated |-> None, started |-> None, finished |-> None],
     [status |-> ERROR, updated |-> Some(900), started |-> None, finished |-> None]}

NextUpdates ==
    \/ nops < MaxUpdateOps /\ Tick(UpdateTimes)
    \/ \E j \in JobIdArgs : nops < MaxUpdateOps /\ CreateJob("b1", "u1", j)
    \/ \E k \in UpdateStatusArgs :
         nops < MaxUpdateOps /\ SetStatus("b1", "j1", k.status, k.updated, k.started, k.finished)
    \/ nops < MaxUpdateOps /\ SetDependencies("b1", "j1", Dependencies)
    \/ nops < MaxUpdateOps /\ RemoveDependencies("b1", "j1")
    \/ \E d \in {AWAITING, AVAILABLE} :
         nops < MaxUpdateOps /\ SetDependencyStatus("b1", "j1", d)
    \/ nops < MaxUpdateOps /\ SetDependencyUsage("b1", "j1", Usage)
    \/ nops < MaxUpdateOps /\ SetProxyUser("b1", "j1", "proxy")
    \/ nops < MaxUpdateOps /\ SetApplicationId("b1", "j1", "application_1")

SpecUpdates == InitUpdates /\ [][NextUpdates]_vars

-----------------------------------------------------------------------------
(* Two registries, bound to two backends, on one store.                    *)

NextBackends ==
    \/ \E b \in Backends, j \in JobIdArgs : nops < MaxOps /\ CreateJob(b, "u1", j)
    \/ \E b \in Backends, j \in JobIds : nops < MaxOps /\ GetJob(b, j, None)
    \/ \E b \in Backends, s \in {RUNNING, CANCELED} :
         nops < MaxOps /\ SetStatus(b, "j1", s, None, None, None)
    \/ \E b \in Backends : nops < MaxOps /\ SetProxyUser(b, "j1", "proxy")
    \/ \E b \in Backends : nops < MaxOps /\ ListUserJobs(b, "u1", None)
    \/ \E b \in Backends : nops < MaxOps /\ ListActiveJobs(b, None, None)

SpecBackends == InitUpdates /\ [][NextBackends]_vars

-----------------------------------------------------------------------------
(* Failures: the service goes down and comes back, one registry has no     *)
(* credentials set up, and calls are made inside and outside a             *)
(* just_log_errors block.                                                  *)

InitFailures ==
    /\ store = <<>>
    /\ up = TRUE
    /\ clock = 0
    /\ authenticator = [b \in Backends |-> b = "b1"]
    /\ cache = [b \in Backends |-> None]
    /\ fetches = [b \in Backends |-> 0]
    /\ fetched_at = [b \in Backends |-> None]
    /\ nops = 0
    /\ prev = <<>>
    /\ result = NoResult
    /\ cached_at = [b \in Backends |-> None]
    /\ threads = [t \in Threads |-> Idle]
    /\ guard = None
    /\ log = <<>>
    /\ calls = [t \in Threads |-> NoCall]

BlockNames == {"EJR", "job_tracker"}

NextFailures ==
    \/ nops < MaxOps /\ Outage
    \/ \E n \in BlockNames : nops < MaxOps /\ JustLogErrors(n)
    \/ nops < MaxOps /\ EndOfBlock
    \/ \E b \in Backends : nops < MaxOps /\ CreateJob(b, "u1", Some("j1"))
    \/ \E b \in Backends : nops < MaxOps /\ GetJob(b, "j1", None)
    \/ \E b \in Backends : nops < MaxOps /\ SetStatus(b, "j1", RUNNING, None, None, None)
    \/ \E b \in Backends : nops < MaxOps /\ ListUserJobs(b, "u1", None)

SpecFailures == InitFailures /\ [][NextFailures]_vars

\* Health checks, with and without authentication, on a registry that has
\* credentials and on one that has none, between other requests.
NextHealth ==
    \/ nops < MaxOps /\ Tick(Times)
    \/ nops < MaxOps /\ Outage
    \/ \E b \in Backends : nops < MaxOps /\ GetJob(b, "j1", None)
    \/ \E b \in Backends : \E use_auth \in BOOLEAN : nops < MaxOps /\ HealthCheck(b, use_auth)

SpecHealth == InitFailures /\ [][NextHealth]_vars

-----------------------------------------------------------------------------
(* Building credentials from a mapping and from the environment.           *)

\* The mapping with keys S; the value of a key is written after the key.
MappingOf(S) == [k \in S |-> <<"value of", k>>]

ConfigMappings == {MappingOf(S) : S \in SUBSET (CredentialArgs \cup {"other"})}
Environments ==
    {MappingOf(S) : S \in SUBSET ({EnvVarMapping[a] : a \in CredentialArgs} \cup {"HOME"})}

\* The builder returned or raised: the call and what it gave.
Build(op, args, b) ==
    /\ nops < MaxOps
    /\ nops' = nops + 1
    /\ result' = [op |-> op, args |-> args, outcome |-> b.outcome, value |-> b.value,
                  missing |-> b.missing]
    /\ UNCHANGED <<store, up, clock, authenticator, cache, fetches, fetched_at, prev,
                   cached_at, threads, guard, log, calls>>

NextCredentials ==
    \/ \E data \in ConfigMappings, strict \in BOOLEAN :
         Build("from_mapping", [data |-> data, strict |-> strict],
               FromMapping(data, strict))
    \/ \E env \in {None} \cup {Some(e) : e \in Environments}, strict \in BOOLEAN :
         \E environ \in {MappingOf({}), MappingOf({"HOME", EnvVarMapping.client_id}),
                         MappingOf({EnvVarMapping[a] : a \in CredentialArgs})} :
             Build("from_env", [env |-> env, environ |-> environ, strict |-> strict],
                   FromEnv(env, environ, strict))

SpecCredentials == Init /\ [][NextCredentials]_vars

-----------------------------------------------------------------------------
(* Accounting of dependency usage: stored as text, read back.              *)

NextUsage ==
    \/ nops < MaxOps /\ CreateJob("b1", "u1", Some("j1"))
    \/ \E d \in Usages : nops < MaxOps /\ SetDependencyUsage("b1", "j1", d)
    \/ \E f \in {None, Some({"dependency_usage"})} : nops < MaxOps /\ GetJob("b1", "j1", f)

SpecUsage == InitUpdates /\ [][NextUsage]_vars

-----------------------------------------------------------------------------
(* Searches with a choice of fields.                                       *)

NextSearch ==
    \/ nops < MaxOps /\ Tick(Times)
    \/ \E j \in JobIdArgs : nops < MaxOps /\ CreateJob("b1", "u1", j)
    \/ \E f \in FieldsArgs : nops < MaxOps /\ GetJob("b1", "j1", f)
    \/ \E f \in FieldsArgs : nops < MaxOps /\ ListUserJobs("b1", "u1", f)
    \/ \E f \in FieldsArgs : nops < MaxOps /\ ListActiveJobs("b1", None, f)

SpecSearch == InitUpdates /\ [][NextSearch]_vars

-----------------------------------------------------------------------------
(* Threads sharing one registry: each request is a cache lookup, on a miss *)
(* a token fetch and a cache store, and then the request itself; the steps *)
(* of different threads interleave and time passes between them.           *)

ThreadTimes == {0, 900, 2700, 691200}

\* Requests begun so far.
Begun == nops + Cardinality({t \in Threads : threads[t].pc # "idle"})

\* _do_request, line 280: the cache is asked for "api_access_token".
ThreadLookup(b, t) ==
    /\ threads[t].pc = "idle"
    /\ threads' = [threads EXCEPT ![t] =
          IF CacheContains(cache[b], clock)
          THEN [pc |-> "send", token |-> Some(cache[b][1].value), from_cache |-> TRUE,
                read_at |-> clock, stored_at |-> cached_at[b][1]]
          ELSE [Idle EXCEPT !.pc = "fetch"]]
    /\ UNCHANGED <<store, up, clock, authenticator, cache, fetches, fetched_at, nops, prev,
                   result, cached_at, guard, log, calls>>

\* _get_access_token, called on a cache miss.
ThreadFetch(b, t) ==
    /\ threads[t].pc = "fetch"
    /\ authenticator[b]
    /\ threads' = [threads EXCEPT ![t] = [Idle EXCEPT !.pc = "store",
                                                      !.token = Some(GetAccessToken(b))]]
    /\ fetches' = [fetches EXCEPT ![b] = @ + 1]
    /\ fetched_at' = [fetched_at EXCEPT ![b] = Some(clock)]
    /\ UNCHANGED <<store, up, clock, authenticator, cache, nops, prev, result, cached_at, guard, log, calls>>

\* The fetched token is stored in the cache, ttl=30 * 60 (line 285).
ThreadStore(b, t) ==
    /\ threads[t].pc = "store"
    /\ cache' = [cache EXCEPT ![b] = CacheSet(threads[t].token[1], AccessTokenTtl, clock)]
    /\ cached_at' = [cached_at EXCEPT ![b] = Some(clock)]
    /\ threads' = [threads EXCEPT ![t].pc = "send"]
    /\ UNCHANGED <<store, up, clock, authenticator, fetches, fetched_at, nops, prev, result, guard, log, calls>>

\* _do_request, lines 289-313: the request is sent with the token and answered.
ThreadSend(b, t, user_id) ==
    /\ threads[t].pc = "send"
    /\ \E r \in StoreResponses(store, up, clock,
                                SearchRequest(ListUserJobsQuery(b, user_id), None)) :
          LET o == Answer(SearchRequest(ListUserJobsQuery(b, user_id), None), 200, r,
                          [token |-> threads[t].token, cache |-> cache[b],
                           fetched |-> IF threads[t].from_cache THEN 0 ELSE 1])
          IN /\ store' = o.docs
             /\ prev' = store
             /\ nops' = nops + 1
             /\ result' = [op |-> "list_user_jobs", reg |-> b,
                           args |-> [user_id |-> user_id, fields |-> None], at |-> clock,
                           outcome |-> o.outcome, detail |-> o.detail,
                           status_code |-> o.status_code, body |-> o.body, hit |-> o.hit,
                           token |-> o.token, fetched |-> o.fetched,
                           last_fetch |-> fetched_at[b], sent |-> o.sent,
                           request |-> o.request, guard |-> guard,
                           raised |-> JustLogExceptions(guard, o.outcome).raised]
    /\ threads' = [threads EXCEPT ![t] = Idle]
    /\ UNCHANGED <<up, clock, authenticator, cache, fetches, fetched_at, cached_at, guard, log, calls>>

NextThreads ==
    \/ Tick(ThreadTimes)
    \/ \E t \in Threads : Begun < MaxRequests /\ ThreadLookup("b1", t)
    \/ \E t \in Threads : ThreadFetch("b1", t)
    \/ \E t \in Threads : ThreadStore("b1", t)
    \/ \E t \in Threads : ThreadSend("b1", t, "u1")

SpecThreads == InitUpdates /\ [][NextThreads]_vars

-----------------------------------------------------------------------------
(* Callers in different threads working on one job: each makes one call of *)
(* the registry.  The call builds its data first (set_status reads the     *)
(* clock on line 416, before _update), and then goes through _do_request   *)
(* step by step, as above.                                                 *)

WriterTimes == {0, 900}
WriterStatusArgs ==
    {[status |-> RUNNING, updated |-> None, started |-> Some(900), finished |-> None],
     [status |-> FINISHED, updated |-> None, started |-> None, finished |-> None],
     [status |-> ERROR, updated |-> Some(691200), started |-> None, finished |-> None]}

\* The threads that have called the registry.
Started == {t \in Threads : calls[t].op # "none"}

\* A thread calls op(*args): the data of the request is built.
ThreadCall(t, op, args, data) ==
    /\ calls[t].op = "none"
    /\ threads[t].pc = "idle"
    /\ calls' = [calls EXCEPT ![t] =
                   [NoCall EXCEPT !.op = op, !.args = args, !.data = data, !.at = clock]]
    /\ UNCHANGED <<store, up, clock, authenticator, cache, fetches, fetched_at, nops, prev,
                   result, cached_at, threads, guard, log>>

ThreadSetStatus(t, job_id, status, updated, started, finished) ==
    ThreadCall(t, "set_status",
               [job_id |-> job_id, status |-> status, updated |-> updated,
                started |-> started, finished |-> finished],
               SetStatusData(status, updated, started, finished))

ThreadSetDependencies(t, job_id, dependencies) ==
    ThreadCall(t, "set_dependencies", [job_id |-> job_id, dependencies |-> dependencies],
               SetDependenciesData(dependencies))

ThreadRemoveDependencies(t, job_id) ==
    ThreadCall(t, "remove_dependencies", [job_id |-> job_id], RemoveDependenciesData)

ThreadSetProxyUser(t, job_id, proxy_user) ==
    ThreadCall(t, "set_proxy_user", [job_id |-> job_id, proxy_user |-> proxy_user],
               SetProxyUserData(proxy_user))

ThreadSetApplicationId(t, job_id, application_id) ==
    ThreadCall(t, "set_application_id",
               [job_id |-> job_id, application_id |-> application_id],
               SetApplicationIdData(application_id))

ThreadGetJob(t, job_id) ==
    ThreadCall(t, "get_job", [job_id |-> job_id, fields |-> None], <<>>)

\* The thread's call enters _do_request.
ThreadBegin(b, t) ==
    /\ calls[t].op # "none"
    /\ ~calls[t].done
    /\ ThreadLookup(b, t)

\* What a thread's call leaves in result.
ThreadResult(b, t, o) ==
    [op |-> calls[t].op, reg |-> b, args |-> calls[t].args, at |-> clock,
     outcome |-> o.outcome, detail |-> o.detail, status_code |-> o.status_code,
     body |-> o.body, hit |-> o.hit, token |-> o.token, fetched |-> o.fetched,
     last_fetch |-> fetched_at[b], sent |-> o.sent, request |-> o.request,
     guard |-> guard, raised |-> JustLogExceptions(guard, o.outcome).raised]

\* The request of the thread's call is sent and answered, and the call returns.
ThreadAnswered(b, t, o) ==
    /\ store' = o.docs
    /\ prev' = store
    /\ nops' = nops + 1
    /\ result' = ThreadResult(b, t, o)
    /\ threads' = [threads EXCEPT ![t] = Idle]
    /\ calls' = [calls EXCEPT ![t] = [@ EXCEPT !.done = TRUE, !.ok = (o.outcome = "ok"),
                                               !.seq = nops + 1, !.observed = o.body]]
    /\ UNCHANGED <<up, clock, authenticator, cache, fetches, fetched_at, cached_at, guard, log>>

\* _update, lines 428-430, in a thread: the PATCH request is sent.
ThreadUpdate(b, t) ==
    /\ threads[t].pc = "send"
    /\ calls[t].op \notin {"none", "get_job"}
    /\ LET req == UpdateRequest(calls[t].args.job_id, calls[t].data) IN
       \E r \in StoreResponses(store, up, clock, req) :
          ThreadAnswered(b, t, Answer(req, 200, r,
                                      [token |-> threads[t].token, cache |-> cache[b],
                                       fetched |-> IF threads[t].from_cache THEN 0 ELSE 1]))

\* get_job, lines 380-403, in a thread: the search request is sent.
ThreadSearch(b, t) ==
    /\ threads[t].pc = "send"
    /\ calls[t].op = "get_job"
    /\ LET job_id == calls[t].args.job_id
           req == SearchRequest(GetJobQuery(b, job_id), GetJobFields(calls[t].args.fields))
       IN \E r \in StoreResponses(store, up, clock, req) :
             ThreadAnswered(b, t, GetJobReturn(
                 Answer(req, 200, r,
                        [token |-> threads[t].token, cache |-> cache[b],
                         fetched |-> IF threads[t].from_cache THEN 0 ELSE 1]), job_id))

\* A job is created and given dependencies; then the threads call the registry.
NextWriters ==
    \/ Tick(WriterTimes)
    \/ Started = {} /\ nops < MaxOps /\ CreateJob("b1", "u1", None)
    \/ Started = {} /\ nops < MaxOps /\ SetDependencies("b1", "j1", Dependencies)
    \/ Started = {} /\ nops < MaxOps /\ SetDependencyStatus("b1", "j1", AWAITING)
    \/ \E t \in Threads : \E k \in WriterStatusArgs :
         ThreadSetStatus(t, "j1", k.status, k.updated, k.started, k.finished)
    \/ \E t \in Threads : ThreadSetDependencies(t, "j1", Dependencies)
    \/ \E t \in Threads : ThreadRemoveDependencies(t, "j1")
    \/ \E t \in Threads : ThreadSetProxyUser(t, "j1", "u2")
    \/ \E t \in Threads : ThreadSetApplicationId(t, "j1", "a1")
    \/ \E t \in Threads : ThreadGetJob(t, "j1")
    \/ \E t \in Threads : ThreadBegin("b1", t)
    \/ \E t \in Threads : ThreadFetch("b1", t)
    \/ \E t \in Threads : ThreadStore("b1", t)
    \/ \E t \in Threads : ThreadUpdate("b1", t)
    \/ \E t \in Threads : ThreadSearch("b1", t)

SpecWriters == InitUpdates /\ [][NextWriters]_vars

\* Threads set the status of a job or remove its dependencies while another
\* caller reads the job.
NextReaders ==
    \/ Tick(WriterTimes)
    \/ Started = {} /\ nops < MaxOps /\ CreateJob("b1", "u1", None)
    \/ Started = {} /\ nops < MaxOps /\ SetDependencies("b1", "j1", Dependencies)
    \/ Started = {} /\ nops < MaxOps /\ SetDependencyStatus("b1", "j1", AWAITING)
    \/ nops < MaxOps + NumThreads /\ GetJob("b1", "j1", None)
    \/ \E t \in Threads : \E k \in WriterStatusArgs :
         ThreadSetStatus(t, "j1", k.status, k.updated, k.started, k.finished)
    \/ \E t \in Threads : ThreadRemoveDependencies(t, "j1")
    \/ \E t \in Threads : ThreadBegin("b1", t)
    \/ \E t \in Threads : ThreadFetch("b1", t)
    \/ \E t \in Threads : ThreadStore("b1", t)
    \/ \E t \in Threads : ThreadUpdate("b1", t)

SpecReaders == InitUpdates /\ [][NextReaders]_vars

-----------------------------------------------------------------------------
(* Properties.  result describes the last registry call, prev the documents *)
(* before it and store the documents after it.                              *)

\* The documents of backend b with job id job_id.
JobsOf(docs, b, job_id) ==
    {i \in 1..Len(docs) : docs[i].backend_id = b /\ docs[i].job_id = job_id}

\* What get_job(job_id) on registry b returns when it is called now and the
\* service answers the search.
GetJobNow(b, job_id) ==
    GetJobReturn(Outcome("ok", None, 200,
                         Hits(store, GetJobQuery(b, job_id),
                              SearchBody(GetJobQuery(b, job_id), GetJobFields(None)).source,
                              clock),
                         store, 0, [token |-> None, cache |-> None, fetched |-> 0], 1,
                         Some(SearchRequest(GetJobQuery(b, job_id), GetJobFields(None)))),
                 job_id)

Returned(op) == result.op = op /\ result.outcome = "ok"

\* C1: get_job right after a successful create_job (job id generated or given
\* by the caller) returns a record with status "created" and created = updated.
C1_GetJobAfterCreateJob ==
    Returned("create_job") =>
        LET got == GetJobNow(result.reg, result.args.job_id) IN
        /\ got.outcome = "ok"
        /\ got.body[1].status = CREATED
        /\ got.body[1].created = got.body[1].updated

\* The status transitions of the lifecycle created -> queued -> running ->
\* {canceled, finished, error}.
Lifecycle ==
    {<<CREATED, QUEUED>>, <<QUEUED, RUNNING>>, <<RUNNING, CANCELED>>,
     <<RUNNING, FINISHED>>, <<RUNNING, ERROR>>}

\* set_status(job_id, s), without further arguments, returned for an existing
\* job (the one record with that job id), moving it along the lifecycle.
LifecycleStepDone ==
    /\ Returned("set_status")
    /\ result.args.updated = None
    /\ result.args.started = None
    /\ result.args.finished = None
    /\ PatchTargets(prev, result.args.job_id) = JobsOf(prev, result.reg, result.args.job_id)
    /\ Cardinality(PatchTargets(prev, result.args.job_id)) = 1
    /\ <<prev[result.hit].status, result.args.status>> \in Lifecycle

\* C2 as stated: after set_status(job_id, s) for a lifecycle transition,
\* get_job(job_id) has status s and a strictly newer updated timestamp.
C2_UpdatedStrictlyNewer ==
    LifecycleStepDone =>
        LET got == GetJobNow(result.reg, result.args.job_id) IN
        /\ got.outcome = "ok"
        /\ got.body[1].status = result.args.status
        /\ got.body[1].updated > prev[result.hit].updated

\* C2 as amended: after set_status(job_id, s) for a lifecycle transition,
\* get_job(job_id) has status s and its updated timestamp is the clock reading
\* of the call in whole seconds: strictly newer than the one before when that
\* lies before the second of the call, and the same when it lies within it.
C2_UpdatedIsTimeOfCall ==
    LifecycleStepDone =>
        LET got == GetJobNow(result.reg, result.args.job_id)
            before == prev[result.hit].updated
        IN /\ got.outcome = "ok"
           /\ got.body[1].status = result.args.status
           /\ got.body[1].updated = result.at
           /\ before < result.at => got.body[1].updated > before
           /\ before = result.at => got.body[1].updated = before

\* C2 witness: a lifecycle step made in a later second than the last update.
C2_Witness ==
    /\ LifecycleStepDone
    /\ prev[result.hit].updated < result.at
    /\ prev[result.hit].status = QUEUED

\* C3: set_status is never turned down because of the job's current status:
\* whenever the registry has a token and the service is up, the update is sent
\* and, if a record with the job id exists, the record updated holds
\* exactly the requested status, for every pair of current and requested status.
C3_NoTransitionCheck ==
    result.op = "set_status" =>
        /\ result.outcome # "EjrError" => result.sent = 1
        /\ (result.sent = 1 /\ result.status_code # 503
              /\ PatchTargets(prev, result.args.job_id) # {}) =>
             /\ result.outcome = "ok"
             /\ result.hit \in PatchTargets(prev, result.args.job_id)
             /\ store[result.hit].status = result.args.status

\* C3 witness: a backward move, finished -> queued, was stored.
C3_Witness ==
    /\ Returned("set_status")
    /\ prev[result.hit].status = FINISHED
    /\ result.args.status = QUEUED
    /\ store[result.hit].status = QUEUED

\* C4: get_job returns a record only when exactly one record matches
\* (backend_id, job_id); with no match it raises the not-found error naming
\* the job id; with two or more it raises the internal error and returns none.
C4_GetJobUniqueMatch ==
    (result.op = "get_job" /\ result.sent = 1 /\ result.status_code = 200) =>
        LET n == Cardinality(JobsOf(prev, result.reg, result.args.job_id)) IN
        /\ n = 1 => /\ result.outcome = "ok"
                    /\ \E i \in JobsOf(prev, result.reg, result.args.job_id) :
                         result.body = <<prev[i]>>
        /\ n = 0 => /\ result.outcome = "JobNotFoundException"
                    /\ result.detail = Some(result.args.job_id)
                    /\ result.body = <<>>
        /\ n >= 2 => /\ result.outcome = "InternalException"
                     /\ result.body = <<>>

\* C4 witness: a lookup found two records and raised the internal error.
C4_Witness ==
    /\ result.op = "get_job"
    /\ result.outcome = "InternalException"
    /\ Cardinality(JobsOf(store, result.reg, result.args.job_id)) = 2

\* The fields every search returns (_search, line 462).
BasicFields == {"job_id", "user_id", "created", "status", "updated"}

\* The documents of docs, in order, that meet Test, with the basic fields.
Listed(docs, Test(_)) ==
    LET sel == SelectSeq(docs, Test) IN
    [i \in 1..Len(sel) |-> Project(sel[i], BasicFields)]

\* C10: list_active_jobs(max_age) returns exactly the jobs of the bound backend
\* with status created, queued or running that were created within the last
\* max_age days, for every integer max_age given, and within 7 days when none
\* is given (so a running job is listed and a finished, canceled or failed
\* one is not).
C10_ListActiveJobsWindow ==
    Returned("list_active_jobs") =>
        LET days == IF result.args.max_age = None THEN 7 ELSE result.args.max_age[1]
            Active(doc) ==
                /\ doc.backend_id = result.reg
                /\ doc.status \in {CREATED, QUEUED, RUNNING}
                /\ doc.created >= result.at - days * SecondsPerDay
        IN result.body = Listed(prev, Active)

\* C5: after remove_dependencies(job_id) returned, dependencies and
\* dependency_status of the job are both absent (null), whatever they held.
C5_RemoveDependenciesClearsBoth ==
    Returned("remove_dependencies") =>
        /\ result.hit \in PatchTargets(prev, result.args.job_id)
        /\ Get(store[result.hit], "dependencies") = None
        /\ Get(store[result.hit], "dependency_status") = None
        /\ result.body = <<store[result.hit]>>
        /\ Cardinality(PatchTargets(prev, result.args.job_id)) = 1 =>
             LET got == GetJobNow(prev[result.hit].backend_id, result.args.job_id) IN
             /\ got.outcome = "ok"
             /\ Get(got.body[1], "dependencies") = None
             /\ Get(got.body[1], "dependency_status") = None

\* C5 witness: remove_dependencies returned for a job that had both fields set.
C5_Witness ==
    /\ Returned("remove_dependencies")
    /\ Get(prev[result.hit], "dependencies") # None
    /\ Get(prev[result.hit], "dependency_status") # None

UpdateOps ==
    {"set_status", "set_dependencies", "remove_dependencies", "set_dependency_status",
     "set_dependency_usage", "set_proxy_user", "set_application_id"}

\* The fields the last call names.
NamedFields ==
    CASE result.op = "set_status" ->
           {"status", "updated"}
             \cup (IF result.args.started # None THEN {"started"} ELSE {})
             \cup (IF result.args.finished # None THEN {"finished"} ELSE {})
      [] result.op = "set_dependencies" -> {"dependencies"}
      [] result.op = "remove_dependencies" -> {"dependencies", "dependency_status"}
      [] result.op = "set_dependency_status" -> {"dependency_status"}
      [] result.op = "set_dependency_usage" -> {"dependency_usage"}
      [] result.op = "set_proxy_user" -> {"proxy_user"}
      [] result.op = "set_application_id" -> {"application_id"}

\* Field k of document i is as it was before the last call.
Untouched(i, k) ==
    (k \in DOMAIN prev[i]) = (k \in DOMAIN store[i])
      /\ (k \in DOMAIN prev[i] => store[i][k] = prev[i][k])

\* C6: a partial update changes only the fields it names, on the one job it
\* targets: every other field of that job and every field of every other job
\* is as before, and no record is added or removed.
C6_PartialUpdateFrame ==
    result.op \in UpdateOps =>
        /\ Len(store) = Len(prev)
        /\ result.hit # 0 => prev[result.hit].job_id = result.args.job_id
        /\ \A i \in 1..Len(prev) :
             \A k \in DOMAIN prev[i] \cup DOMAIN store[i] :
                 (i = result.hit /\ k \in NamedFields) \/ Untouched(i, k)

\* C6 witness: an update changed a job that had fields set by earlier updates,
\* while the store held another job.
C6_Witness ==
    /\ result.op \in UpdateOps
    /\ result.outcome = "ok"
    /\ Len(store) = 2
    /\ store[result.hit] # prev[result.hit]
    /\ Get(prev[result.hit], "proxy_user") # None
    /\ result.op # "set_proxy_user"

\* The records of backend b in docs, as a search with the fields of the last
\* call shows them.
ShownOf(docs, b, fields) ==
    {Project(docs[i], SearchBody(<<>>, fields).source) :
        i \in {n \in 1..Len(docs) : docs[n].backend_id = b}}

\* C7: no call on a registry bound to backend B reads or modifies a record of
\* another backend: a record created carries B, a record changed belonged to B,
\* and every record returned by get_job, list_user_jobs or list_active_jobs is
\* a record of B.
C7_ScopedToBackend ==
    result.op # "none" =>
        /\ \A i \in 1..Len(store) :
             IF i <= Len(prev)
             THEN store[i] # prev[i] => prev[i].backend_id = result.reg
             ELSE store[i].backend_id = result.reg
        /\ result.op \in {"get_job", "list_user_jobs", "list_active_jobs"} =>
             \A n \in 1..Len(result.body) :
                 result.body[n] \in ShownOf(prev, result.reg,
                     IF result.op = "get_job" THEN GetJobFields(result.args.fields)
                     ELSE result.args.fields)

\* C8: on one registry, a request made while the cached token is younger than
\* 30 minutes fetches no token and carries the token of the last fetch; the
\* first request, and a request made once the 30 minutes are over, fetches a
\* new token, exactly once, and carries it.
C8_TokenFetchedOncePerTtl ==
    (result.op # "none" /\ result.sent = 1) =>
        LET young == result.last_fetch # None
                       /\ result.at - result.last_fetch[1] < 30 * 60
        IN /\ result.fetched = (IF young THEN 0 ELSE 1)
           /\ result.token = Some(fetches[result.reg])
           /\ fetched_at[result.reg] = (IF young THEN result.last_fetch ELSE Some(result.at))

\* C8 witness: a request made 15 minutes after the token fetch reused the token.
C8_Witness ==
    /\ result.op # "none"
    /\ result.sent = 1
    /\ result.last_fetch = Some(0)
    /\ result.at = 900
    /\ result.fetched = 0
    /\ fetches[result.reg] = 1

\* C9: whatever the interleaving of the threads' cache lookups, token fetches
\* and cache stores, a token read from the cache was stored there less than
\* 30 minutes before the read; a thread that missed the cache holds a token
\* it fetched itself.
C9_NoExpiredTokenFromCache ==
    \A t \in Threads :
        threads[t].pc = "send" =>
            /\ threads[t].token # None
            /\ threads[t].from_cache =>
                 threads[t].read_at - threads[t].stored_at < 30 * 60

\* C9 witness: both threads fetched a token for the same expired entry
\* (duplicate refresh), and a later request read the cached token.
C9_Witness ==
    /\ fetches["b1"] = 2
    /\ \E t \in Threads :
         /\ threads[t].pc = "send"
         /\ threads[t].from_cache
         /\ threads[t].read_at > threads[t].stored_at
         /\ threads[t].read_at < 30 * 60

\* C11: the store holds at most one record per (backend_id, job_id), whatever
\* create_job calls were made, with or without a caller-supplied job id.
C11_UniquePerBackend ==
    \A i, j \in 1..Len(store) :
        (store[i].backend_id = store[j].backend_id /\ store[i].job_id = store[j].job_id)
            => i = j

\* A registry call was made and a response came back for its request.
Responded == result.op # "none" /\ result.sent = 1 /\ result.status_code # NoResponse

\* C12: when the status of the response is not the one the operation expects
\* (201 for create_job, 200 for the partial updates and the searches), the
\* call fails with an EjrHttpError that carries the status code of the
\* response, and returns no record; so create_job fails on a 200.
C12_UnexpectedStatusIsEjrHttpError ==
    (Responded /\ result.status_code # (IF result.op = "create_job" THEN 201 ELSE 200)) =>
        /\ result.outcome = "EjrHttpError"
        /\ result.detail = Some(result.status_code)
        /\ result.body = <<>>
        /\ result.guard = None => result.raised

\* C12 witness: create_job got a 200.
C12_Witness ==
    /\ result.op = "create_job"
    /\ result.sent = 1
    /\ result.status_code = 200
    /\ result.outcome = "EjrHttpError"

\* C13: a call on a registry without authentication set up (and so without a
\* cached token) fails with EjrError; no request is sent and no token is
\* fetched, and the records of the store are as before.
C13_NoAuthNoRequest ==
    (result.op # "none" /\ ~authenticator[result.reg]) =>
        /\ result.outcome = "EjrError"
        /\ result.sent = 0
        /\ result.request = None
        /\ result.fetched = 0
        /\ store = prev
        /\ result.guard = None => result.raised

\* C13 witness: the call failed for lack of authentication while the store
\* held a job with the job id of the call.
C13_Witness ==
    /\ result.op = "set_status"
    /\ result.outcome = "EjrError"
    /\ PatchTargets(store, result.args.job_id) # {}

\* C14: a registry call sends one HTTP request, or none when it has no token,
\* and fetches at most one token; a call whose request failed (unexpected
\* status, no response) ends with that error and sends nothing more.
C14_OneRequestNoRetry ==
    result.op # "none" =>
        /\ result.sent = (IF result.outcome = "EjrError" THEN 0 ELSE 1)
        /\ result.fetched \in {0, 1}
        /\ (result.sent = 1 /\ result.status_code = NoResponse) =>
             result.outcome = "ConnectionError"
        /\ (result.outcome # "ok" /\ result.guard = None) => result.raised

\* C14 witness: the request got no response and the call ended with the error.
C14_Witness ==
    /\ result.op = "set_status"
    /\ result.outcome = "ConnectionError"
    /\ result.sent = 1
    /\ result.raised

\* C16: a failed registry call inside a just_log_errors block is logged with
\* the name the caller gave and goes no further; outside a block the failure
\* reaches the caller.
C16_JustLogErrors ==
    result.op # "none" =>
        IF result.outcome = "ok" THEN ~result.raised
        ELSE IF result.guard = None THEN result.raised
        ELSE /\ ~result.raised
             /\ log # <<>>
             /\ log[Len(log)] = [name |-> result.guard[1].given, error |-> result.outcome]

\* C16 witness: a consistency error of get_job was logged under the name given
\* for the block.
C16_Witness ==
    /\ result.op = "get_job"
    /\ result.outcome = "InternalException"
    /\ result.guard # None
    /\ ~result.raised
    /\ log # <<>>
    /\ log[Len(log)].name = "job_tracker"

\* C14 as stated: every registry call sends exactly one HTTP request.
C14_ExactlyOneRequest ==
    result.op # "none" => result.sent = 1

\* The mapping a builder call is to read: the mapping given to from_mapping;
\* for from_env the environment given, and the process environment when none
\* (or an empty one) is given.
MappingRead ==
    IF result.op = "from_mapping" THEN result.args.data
    ELSE IF result.args.env = None \/ result.args.env = Some(MappingOf({}))
    THEN result.args.environ
    ELSE result.args.env[1]

\* The key under which each of the three values is looked up.
KeyOf(a) ==
    IF result.op = "from_mapping" THEN a
    ELSE CASE a = "oidc_issuer" -> "OPENEO_EJR_OIDC_ISSUER"
           [] a = "client_id" -> "OPENEO_EJR_OIDC_CLIENT_ID"
           [] a = "client_secret" -> "OPENEO_EJR_OIDC_CLIENT_SECRET"

MissingKeys ==
    {KeyOf(a) : a \in {"oidc_issuer", "client_id", "client_secret"}} \ DOMAIN MappingRead

\* C15: from_mapping and from_env give credentials exactly when the three
\* values are present, each value in its own field; when some are missing, the
\* strict call raises an EjrError naming exactly the missing keys and the
\* non-strict call returns None.
C15_CredentialsOrMissingKeys ==
    result.op \in {"from_mapping", "from_env"} =>
        IF MissingKeys = {}
        THEN /\ result.outcome = "ok"
             /\ result.value # None
             /\ \A a \in {"oidc_issuer", "client_id", "client_secret"} :
                    result.value[1][a] = MappingRead[KeyOf(a)]
        ELSE IF result.args.strict
        THEN /\ result.outcome = "EjrError"
             /\ result.missing = MissingKeys
        ELSE /\ result.outcome = "ok"
             /\ result.value = None

\* C15 witness: a strict from_env with one of the three variables set raised
\* an error naming the other two.
C15_Witness ==
    /\ result.op = "from_env"
    /\ result.args.strict
    /\ result.args.env # None
    /\ result.outcome = "EjrError"
    /\ result.missing = {"OPENEO_EJR_OIDC_ISSUER", "OPENEO_EJR_OIDC_CLIENT_SECRET"}

\* C17: after set_dependency_usage(job_id, d), the dependency_usage read back
\* with get_job is a text that converts to the decimal d itself: same sign,
\* same digits, same exponent.
C17_DependencyUsageRoundTrip ==
    (Returned("set_dependency_usage")
       /\ Cardinality(JobsOf(store, result.reg, result.args.job_id)) = 1) =>
        LET got == GetJobNow(result.reg, result.args.job_id) IN
        /\ got.outcome = "ok"
        /\ Get(got.body[1], "dependency_usage") # None
        /\ DecimalFromString(got.body[1].dependency_usage[1]) = result.args.dependency_usage

\* C17 witness: 12.3456789012345 was stored and is read back as
\* "12.3456789012345".
C17_Witness ==
    /\ Returned("get_job")
    /\ Get(result.body[1], "dependency_usage")
         = Some(<<"1", "2", ".", "3", "4", "5", "6", "7", "8", "9", "0", "1", "2", "3", "4", "5">>)
    /\ DecimalFromString(result.body[1].dependency_usage[1]) = Usage

\* C18: the search request of get_job, list_user_jobs and list_active_jobs
\* asks for a projection ("_source") that holds job_id, user_id, created,
\* status and updated, and every field the caller named, whatever the fields
\* argument: none, an empty list or a list of names.
C18_SearchProjection ==
    (result.op \in {"get_job", "list_user_jobs", "list_active_jobs"} /\ result.sent = 1) =>
        /\ result.request[1].path = "/jobs/search"
        /\ BasicFields \subseteq result.request[1].json.source
        /\ result.args.fields # None => result.args.fields[1] \subseteq result.request[1].json.source

\* C18 witness: list_user_jobs was asked for fields that hold none of the
\* basic ones but job_id, and returned a job.
C18_Witness ==
    /\ Returned("list_user_jobs")
    /\ result.args.fields = Some({"job_id", "process", "dependencies"})
    /\ result.body # <<>>
    /\ BasicFields \subseteq DOMAIN result.body[1]

\* Field k of the record the last call changed is as it was before the call.
Kept(k) == Untouched(result.hit, k)

\* C19: set_status writes updated, the timestamp given or else the time of
\* the call; it writes started when started is given and finished when
\* finished is given, and leaves a stored started or finished as it was when
\* the argument is left out.
C19_SetStatusTimestamps ==
    Returned("set_status") =>
        LET job == store[result.hit] IN
        /\ job.status = result.args.status
        /\ job.updated = (IF result.args.updated # None THEN result.args.updated[1]
                          ELSE result.at)
        /\ IF result.args.started # None
           THEN Get(job, "started") = result.args.started
           ELSE Kept("started")
        /\ IF result.args.finished # None
           THEN Get(job, "finished") = result.args.finished
           ELSE Kept("finished")

\* C19 witness: a set_status that names finished only, on a job whose started
\* was stored by an earlier call.
C19_Witness ==
    /\ Returned("set_status")
    /\ result.args.started = None
    /\ result.args.finished # None
    /\ Get(prev[result.hit], "started") # None
    /\ Get(store[result.hit], "started") = Get(prev[result.hit], "started")

IdentityFields == {"job_id", "backend_id", "user_id", "created"}

\* C20: no registry call removes a record or changes who it is: after a call,
\* every record that was in the store is still there with the job_id,
\* backend_id, user_id and created timestamp it had, and a record added by
\* create_job carries the job id, user and time of that call.
C20_RecordsKeepIdentity ==
    result.op # "none" =>
        /\ Len(store) >= Len(prev)
        /\ \A i \in 1..Len(prev) : \A k \in IdentityFields : store[i][k] = prev[i][k]
        /\ Len(store) > Len(prev) =>
             /\ result.op = "create_job"
             /\ Len(store) = Len(prev) + 1
             /\ store[Len(store)].job_id = result.args.job_id
             /\ store[Len(store)].backend_id = result.reg
             /\ store[Len(store)].user_id = result.args.user_id
             /\ store[Len(store)].created = result.at

\* C20 witness: a partial update changed a record, in a later second than its
\* creation, while the store held two records.
C20_Witness ==
    /\ result.op \in UpdateOps
    /\ result.outcome = "ok"
    /\ Len(store) = 2
    /\ store[result.hit] # prev[result.hit]
    /\ result.at > store[result.hit].created

\* C21: get_job raises JobNotFoundException only after a search request that
\* was answered with status 200; a search that failed ends get_job with the
\* failure itself: EjrHttpError with the status of the response,
\* ConnectionError when there was no response, EjrError when there was no
\* token to send it with.
C21_NotFoundOnlyAfterSearch ==
    result.op = "get_job" =>
        /\ result.outcome = "JobNotFoundException" =>
             /\ result.sent = 1
             /\ result.status_code = 200
             /\ result.detail = Some(result.args.job_id)
        /\ result.sent = 0 => result.outcome = "EjrError"
        /\ (result.sent = 1 /\ result.status_code = NoResponse) =>
             result.outcome = "ConnectionError"
        /\ (result.sent = 1 /\ result.status_code \notin {NoResponse, 200}) =>
             /\ result.outcome = "EjrHttpError"
             /\ result.detail = Some(result.status_code)
        /\ (result.outcome # "ok" /\ result.guard = None) => result.raised

\* C21 witness: the search of get_job was answered with 503 while the store
\* held the job, and get_job raised the EjrHttpError.
C21_Witness ==
    /\ result.op = "get_job"
    /\ result.status_code = 503
    /\ result.outcome = "EjrHttpError"
    /\ result.raised
    /\ JobsOf(store, result.reg, result.args.job_id) # {}

\* The fields the call of a thread names.
CallFields(c) ==
    CASE c.op = "set_status" ->
           {"status", "updated"}
             \cup (IF c.args.started # None THEN {"started"} ELSE {})
             \cup (IF c.args.finished # None THEN {"finished"} ELSE {})
      [] c.op = "set_dependencies" -> {"dependencies"}
      [] c.op = "remove_dependencies" -> {"dependencies", "dependency_status"}
      [] c.op = "set_proxy_user" -> {"proxy_user"}
      [] c.op = "set_application_id" -> {"application_id"}
      [] OTHER -> {}

\* The threads whose call has returned normally.
Succeeded == {t \in Threads : calls[t].done /\ calls[t].ok}

\* C22: when partial updates of one job made concurrently from different
\* threads name disjoint fields, all of them take effect, however their steps
\* interleave: a field that only one of the calls names holds the value that
\* call wrote.
C22_DisjointUpdatesBothKept ==
    \A t \in Succeeded :
        \A k \in CallFields(calls[t]) :
            (\A u \in Succeeded \ {t} : k \notin CallFields(calls[u])) =>
                \A i \in JobsOf(store, "b1", calls[t].args.job_id) :
                    k \in DOMAIN store[i] /\ store[i][k] = calls[t].data[k]

\* set_proxy_user and set_application_id overlapped (the first to be called
\* was the last to be sent) and both returned normally.
C22_Witness ==
    \E t \in Succeeded : \E u \in Succeeded :
        /\ calls[t].op = "set_proxy_user"
        /\ calls[u].op = "set_application_id"
        /\ calls[t].at < calls[u].at
        /\ calls[t].seq > calls[u].seq
        /\ JobsOf(store, "b1", "j1") # {}

\* The status and the timestamp a set_status call asks for: updated as given,
\* or the time of the call.
StatusPair(c) ==
    <<c.args.status, IF c.args.updated # None THEN c.args.updated[1] ELSE c.at>>

\* The (status, updated) pairs written to document d: by create_job and by
\* the set_status calls that returned.
WrittenPairs(d) ==
    {<<CREATED, d.created>>}
      \cup {StatusPair(calls[t]) : t \in {u \in Succeeded : calls[u].op = "set_status"}}

\* The threads whose call of op has returned normally.
SucceededWith(op) == {t \in Succeeded : calls[t].op = op}

\* C23: status and updated of a stored job are those of one write (create_job
\* or one set_status call), in the store and in what a get_job made meanwhile
\* returns; and a get_job made after remove_dependencies returned (and no
\* set_dependencies since) sees dependencies and dependency_status both
\* cleared, never one of them alone.
C23_StatusAndUpdatedFromOneWrite ==
    /\ \A i \in 1..Len(store) :
         <<store[i].status, store[i].updated>> \in WrittenPairs(store[i])
    /\ Returned("get_job") =>
         LET d == result.body[1] IN
         /\ <<d.status, d.updated>> \in WrittenPairs(d)
         /\ (SucceededWith("remove_dependencies") # {}
               /\ SucceededWith("set_dependencies") = {}) =>
              /\ Get(d, "dependencies") = None
              /\ Get(d, "dependency_status") = None

\* get_job returned the status and timestamp of one set_status call while
\* another set_status call, begun earlier, was about to send its request.
C23_Witness ==
    /\ Returned("get_job")
    /\ \E t \in SucceededWith("set_status") : \E u \in Started \ Succeeded :
         /\ calls[u].op = "set_status"
         /\ threads[u].pc = "send"
         /\ calls[u].at < calls[t].at
         /\ calls[u].args.status # calls[t].args.status
         /\ <<result.body[1].status, result.body[1].updated>> = StatusPair(calls[t])

\* C24: a health check with use_auth disabled leaves the token cache (the
\* token and its expiry) as it was and fetches no token, sends its one request
\* without a token (no Authorization header), and never fails for want of
\* credentials: when the service answers, it succeeds, also on a registry
\* without authentication.
C24_HealthCheckWithoutAuth ==
    [][(nops' = nops + 1 /\ result'.op = "health_check" /\ ~result'.args.use_auth) =>
         /\ cache' = cache
         /\ cached_at' = cached_at
         /\ fetches' = fetches
         /\ fetched_at' = fetched_at
         /\ result'.token = None
         /\ result'.fetched = 0
         /\ result'.sent = 1
         /\ result'.outcome # "EjrError"
         /\ up => result'.outcome = "ok"]_vars

\* A health check without authentication succeeded on the registry that has
\* no credentials, while the other registry holds a token that has expired.
C24_Witness ==
    /\ Returned("health_check")
    /\ ~result.args.use_auth
    /\ result.reg = "b2"
    /\ ~authenticator["b2"]
    /\ cache["b2"] = None
    /\ cache["b1"] # None
    /\ clock >= cache["b1"][1].expiry

====
